---------------------------- MODULE Spec2Model ----------------------------
(***************************************************************************)
(* A model of the two notebooks of the repository:                         *)
(*                                                                         *)
(*   guides/ipynb/training_keras_models_on_cloud.ipynb       (nb="cloud")  *)
(*   examples/timeseries/ipynb/                                            *)
(*       timeseries_classification_transformer.ipynb    (nb="timeseries")  *)
(*                                                                         *)
(* and of the function build_model of the second notebook applied to       *)
(* arbitrary (bounded) arguments (nb="build_model").  An execution runs    *)
(* the statements of one notebook top to bottom; a statement that calls    *)
(* into the framework may raise, and an uncaught exception ends the        *)
(* execution.  `calls` is the log of the statements executed so far.       *)
(***************************************************************************)
EXTENDS Integers, Sequences, FiniteSets

VARIABLES
    nb,               \* the program this execution runs
    pc,               \* the statement about to run, "done" or "failed"
    calls,            \* the statements executed so far, with their arguments
    failed,           \* the statement that raised, or "none"
    \* ---- cloud notebook
    remote,           \* what tfc.remote() returns in this execution
    sys_modules,      \* the host markers present in sys.modules
    environ,          \* os.environ["GOOGLE_CLOUD_PROJECT"], or Unset
    requirements_txt, \* the file requirements.txt: [exists, lines]
    saved_model,      \* whether SAVED_MODEL_DIR holds a saved model
    jobs,             \* the training jobs submitted to Google Cloud so far
    \* ---- timeseries notebook
    file_train,       \* the rows of FordA_TRAIN.tsv
    file_test,        \* the rows of FordA_TEST.tsv
    x_train, y_train, \* the training arrays
    x_test, y_test,   \* the test arrays
    n_classes,        \* the global n_classes
    idx,              \* the permutation drawn for the shuffle
    \* ---- build_model
    bm_args,          \* the arguments of the call of build_model
    layers,           \* the layers applied so far
    x,                \* build_model's x: the position of its layer in layers
    blocks,           \* iterations of the stacking loop made so far
    dense             \* iterations of the mlp_units loop made so far

common    == <<nb, pc, calls, failed>>
cloudVars == <<remote, sys_modules, environ, requirements_txt, saved_model, jobs>>
dataVars  == <<file_train, file_test, x_train, y_train, x_test, y_test, idx>>
bmVars    == <<bm_args, layers, x, blocks, dense>>
vars      == <<common, cloudVars, dataVars, n_classes, bmVars>>

None == "none"

\* A log entry: the statement and the arguments it was given.
Call(fn, arg) == [fn |-> fn, arg |-> arg]

NoArg == <<>>

\* The positions of statement fn in the log.
Positions(log, fn) == {k \in 1..Len(log) : log[k].fn = fn}

Called(fn) == Positions(calls, fn) # {}

\* Where a retry of the statement that raised would go on.
RaiseRetry(step) == step

\* An uncaught exception: no try/except anywhere in the notebooks, so
\* the statement that raises is the last one of the execution.
Raise(step) == "failed"

\* A statement that ran to its end.
Ran(step, arg, next) ==
    /\ calls' = Append(calls, Call(step, arg))
    /\ pc' = next
    /\ UNCHANGED <<nb, failed>>

\* A statement whose call raised.
Raised(step, arg) ==
    /\ calls' = Append(calls, Call(step, arg))
    /\ failed' = step
    /\ pc' = Raise(step)
    /\ UNCHANGED nb

\* A statement under an if whose condition is false.
Skipped(next) ==
    /\ pc' = next
    /\ UNCHANGED <<nb, calls, failed>>

\* One guarded or unguarded statement that calls into a library: it runs to
\* its end or raises; under a false condition it is skipped.
Statement(step, cond, arg, next) ==
    IF cond
    THEN \E ok \in BOOLEAN : IF ok THEN Ran(step, arg, next) ELSE Raised(step, arg)
    ELSE Skipped(next)

SeqsUpTo(S, n) == UNION {[1..m -> S] : m \in 0..n}

-----------------------------------------------------------------------------
(***************************************************************************)
(* NumPy arrays: a shape and the elements in row-major order.  Numbers of  *)
(* a text file are kept in halves (the value v stands for v/2), so that a  *)
(* float and its conversion to int differ.                                  *)
(***************************************************************************)

RECURSIVE Size(_)
Size(shape) == IF shape = <<>> THEN 1 ELSE shape[1] * Size(Tail(shape))

RECURSIVE Flatten(_)
Flatten(rows) == IF rows = <<>> THEN <<>> ELSE rows[1] \o Flatten(Tail(rows))

\* The position in the row-major data of the element at index ix (1-based).
RECURSIVE Offset(_, _)
Offset(shape, ix) ==
    IF shape = <<>> THEN 1
    ELSE (ix[1] - 1) * Size(Tail(shape)) + Offset(Tail(shape), Tail(ix))

At(a, ix) == a.data[Offset(a.shape, ix)]

Undefined == [shape |-> <<0>>, data |-> <<>>]

\* The float a file's number stands for, from its whole value.
Float(n) == 2 * n

\* ndarray.astype(int) of one float: truncation toward zero.
AsInt(v) == IF v >= 0 THEN v \div 2 ELSE -((-v) \div 2)

\* np.loadtxt(filename, delimiter="\t"): the rows of the file as a 2-D
\* array; a file of a single row or of a single column comes back 1-D.
LoadTxt(file) ==
    IF Len(file) = 1 THEN [shape |-> <<Len(file[1])>>, data |-> file[1]]
    ELSE IF Len(file[1]) = 1
         THEN [shape |-> <<Len(file)>>, data |-> Flatten(file)]
         ELSE [shape |-> <<Len(file), Len(file[1])>>, data |-> Flatten(file)]

\* data[:, 0]
FirstColumn(data) ==
    [shape |-> <<data.shape[1]>>,
     data |-> [i \in 1..data.shape[1] |-> At(data, <<i, 1>>)]]

\* data[:, 1:]
OtherColumns(data) ==
    [shape |-> <<data.shape[1], data.shape[2] - 1>>,
     data |-> Flatten([i \in 1..data.shape[1] |->
                          [j \in 1..(data.shape[2] - 1) |-> At(data, <<i, j + 1>>)]])]

AsTypeInt(a) == [a EXCEPT !.data = [k \in DOMAIN a.data |-> AsInt(a.data[k])]]

\* readucr raises on data that is not 2-D (data[:, 0] is an IndexError).
ReadUcrRaises(file) == Len(LoadTxt(file).shape) # 2

ReadUcr(file) ==
    [x |-> OtherColumns(LoadTxt(file)),
     y |-> AsTypeInt(FirstColumn(LoadTxt(file)))]

\* ndarray.reshape(shape): the same elements in the same order (the shapes
\* the notebook asks for have the size of the array).
Reshape(a, shape) == [shape |-> shape, data |-> a.data]

\* The target shape with the two dimensions exchanged.
ReshapeTransposed(a) == <<a.shape[2], a.shape[1], 1>>

\* The shape the notebook reshapes a feature array to:
\* (x.shape[0], x.shape[1], 1).
ReshapeTarget(a) == <<a.shape[1], a.shape[2], 1>>

\* a[idx] for an index array idx (1-based here): the rows idx names.
Row(a, i) ==
    SubSeq(a.data, (i - 1) * Size(Tail(a.shape)) + 1, i * Size(Tail(a.shape)))

Take(a, ix) ==
    [shape |-> <<Len(ix)>> \o Tail(a.shape),
     data |-> Flatten([k \in 1..Len(ix) |-> Row(a, ix[k])])]

\* np.random.permutation(n): any ordering of the n indices.
Permutations(n) ==
    {p \in [1..n -> 1..n] : \A i, j \in 1..n : p[i] = p[j] => i = j}

\* len(y): the labels counted with their repetitions.
CountAll(y) == Len(y.data)

\* len(np.unique(y))
CountUnique(y) == Cardinality({y.data[k] : k \in DOMAIN y.data})

\* y[y == 1] = 0
RemapOnes(y) ==
    [y EXCEPT !.data = [k \in DOMAIN y.data |-> IF y.data[k] = 1 THEN 0 ELSE y.data[k]]]

\* y[y == -1] = 0
Remap(y) ==
    [y EXCEPT !.data = [k \in DOMAIN y.data |-> IF y.data[k] = -1 THEN 0 ELSE y.data[k]]]

-----------------------------------------------------------------------------
(***************************************************************************)
(* The files of the timeseries notebook.                                   *)
(***************************************************************************)

\* Bound on the rows of the training file.
MaxTrain == 3
\* The rows of the test file: one (which numpy loads as 1-D) or two.
TestRows == {1, 2}
\* Bound on the timesteps of a row.
MaxSteps == 2
\* The labels a file may hold; FordA holds -1 and 1.
RawLabels == {-1, 0, 1}

\* A file of Len(labels) rows: the label, then `steps` measurements.  The
\* measurements of a file are pairwise different; those of the training
\* file are odd halves, those of the test file even.
MakeFile(labels, steps, tag) ==
    [i \in 1..Len(labels) |->
        <<Float(labels[i])>> \o
        [j \in 1..steps |-> tag + 2 * ((i - 1) * steps + j)]]

LabelSeqs(n) == [1..n -> RawLabels]

\* The values of the variables of a program that is not the one running.
NoData ==
    /\ file_train = <<>> /\ file_test = <<>>
    /\ x_train = Undefined /\ y_train = Undefined
    /\ x_test = Undefined /\ y_test = Undefined
    /\ idx = <<>>

NoArgs ==
    [input_shape |-> <<>>, head_size |-> 0, num_heads |-> 0,
     ff_dim |-> 0, num_transformer_blocks |-> 0, mlp_units |-> <<>>,
     mlp_dropout |-> 0, dropout |-> 0]

NoBuild ==
    /\ bm_args = NoArgs /\ layers = <<>> /\ x = 0 /\ blocks = 0 /\ dense = 0

NoCloud ==
    /\ remote = FALSE /\ sys_modules = {} /\ environ = "<unset>"
    /\ requirements_txt = [exists |-> FALSE, lines |-> <<>>]
    /\ saved_model = FALSE /\ jobs = 0

-----------------------------------------------------------------------------
(***************************************************************************)
(* The cloud notebook.                                                     *)
(***************************************************************************)

\* Project configuration cell.
GCP_PROJECT_ID == "YOUR_PROJECT_ID"
GCS_BUCKET == "YOUR_GCS_BUCKET_NAME"
JOB_NAME == "mnist"
GCS_BASE_PATH == "gs://YOUR_GCS_BUCKET_NAME/mnist"
TENSORBOARD_LOGS_DIR == "gs://YOUR_GCS_BUCKET_NAME/mnist/logs"
MODEL_CHECKPOINT_DIR == "gs://YOUR_GCS_BUCKET_NAME/mnist/checkpoints"
SAVED_MODEL_DIR == "gs://YOUR_GCS_BUCKET_NAME/mnist/saved_model"

\* Base images of the submission cell, as the notebook binds them.
TF_GPU_IMAGE == "gcr.io/deeplearning-platform-release/tf2-cpu.2-5"
TF_CPU_IMAGE == "gcr.io/deeplearning-platform-release/tf2-gpu.2-5"

Unset == "<unset>"
HostMarkers == {"kaggle_secrets", "google.colab"}

\* Length bound on the requirements.txt found before the execution.
MaxReqLines == 2
ReqLineValues == {"tensorflow-cloud", "numpy"}


Files == {[exists |-> FALSE, lines |-> <<>>]}
         \cup {[exists |-> TRUE, lines |-> l] : l \in SeqsUpTo(ReqLineValues, MaxReqLines)}

\* open(name, mode): "w" creates or truncates, "a" creates or keeps.
Open(file, mode) ==
    IF mode = "w" THEN [exists |-> TRUE, lines |-> <<>>]
    ELSE [exists |-> TRUE, lines |-> file.lines]

\* f.write(text) of one newline-terminated line.
Write(file, line) == [file EXCEPT !.lines = Append(@, line)]

\* The append mode of open.
RequirementsModeAppend == "a"

\* The mode requirements.txt is opened with.
RequirementsMode == "w"

\* The order of the statements of the cloud notebook.
CloudSucc(step) ==
    CASE step = "config"       -> "auth_kaggle"
      [] step = "auth_kaggle"  -> "auth_colab"
      [] step = "auth_colab"   -> "load_data"
      [] step = "load_data"    -> "model"
      [] step = "model"        -> "smoke_fit"
      [] step = "smoke_fit"    -> "remote_fit"
      [] step = "remote_fit"   -> "remote_save"
      [] step = "remote_save"  -> "requirements"
      [] step = "requirements" -> "tfc_run"
      [] step = "tfc_run"      -> "done"

InitCloud ==
    /\ nb = "cloud"
    /\ pc = "config"
    /\ calls = <<>>
    /\ failed = None
    /\ remote \in BOOLEAN
    /\ sys_modules \in SUBSET HostMarkers
    /\ environ \in {Unset, "another-project", GCP_PROJECT_ID}
    /\ requirements_txt \in Files
    /\ saved_model = FALSE
    /\ jobs = 0
    /\ NoData /\ n_classes = 0 /\ NoBuild


Config ==
    /\ nb = "cloud" /\ pc = "config"
    /\ Ran("config", NoArg, CloudSucc("config"))
    /\ UNCHANGED cloudVars
    /\ UNCHANGED <<dataVars, n_classes, bmVars>>

\* An authentication cell without its if.
RunsAuthenticationAlways == TRUE

\* if not tfc.remote(): of the authentication cell.
RunsAuthentication == ~remote

\* if not tfc.remote(): of the quick validation training.
RunsSmokeTest == ~remote

\* The condition of the remote training cell, negated.
RunsFullTrainingLocal == ~remote

\* if tfc.remote(): of the remote training cell.
RunsFullTraining == remote

AuthKaggle ==
    /\ nb = "cloud" /\ pc = "auth_kaggle"
    /\ Statement("auth_kaggle",
                 RunsAuthentication /\ "kaggle_secrets" \in sys_modules,
                 [project |-> GCP_PROJECT_ID], CloudSucc("auth_kaggle"))
    /\ UNCHANGED cloudVars
    /\ UNCHANGED <<dataVars, n_classes, bmVars>>

AuthColab ==
    /\ nb = "cloud" /\ pc = "auth_colab"
    /\ Statement("auth_colab",
                 RunsAuthentication /\ "google.colab" \in sys_modules, NoArg, CloudSucc("auth_colab"))
    /\ environ' = IF pc' = CloudSucc("auth_colab") /\ Len(calls') > Len(calls)
                  THEN GCP_PROJECT_ID ELSE environ
    /\ UNCHANGED <<remote, sys_modules, requirements_txt, saved_model, jobs>>
    /\ UNCHANGED <<dataVars, n_classes, bmVars>>

\* x_train.reshape((60000, 28 * 28))
TrainSamples == 60000
\* x_train[:100]
SmokeSamples == 100
SmokeEpochs == 1
FullEpochs == 100

Min(a, b) == IF a < b THEN a ELSE b

\* x[:n] of an array of `len` rows, as the range of rows it holds.
Rows(len, n) == [first |-> 1, last |-> Min(len, n)]

LoadData ==
    /\ nb = "cloud" /\ pc = "load_data"
    /\ Statement("load_data", TRUE, NoArg, CloudSucc("load_data"))
    /\ UNCHANGED cloudVars
    /\ UNCHANGED <<dataVars, n_classes, bmVars>>

CreateModel ==
    /\ nb = "cloud" /\ pc = "model"
    /\ Statement("model", TRUE, NoArg, CloudSucc("model"))
    /\ UNCHANGED cloudVars
    /\ UNCHANGED <<dataVars, n_classes, bmVars>>

SmokeFitArgs ==
    [x |-> Rows(TrainSamples, SmokeSamples), epochs |-> SmokeEpochs,
     callbacks |-> {}]

SmokeFit ==
    /\ nb = "cloud" /\ pc = "smoke_fit"
    /\ Statement("smoke_fit", RunsSmokeTest, SmokeFitArgs, CloudSucc("smoke_fit"))
    /\ UNCHANGED cloudVars
    /\ UNCHANGED <<dataVars, n_classes, bmVars>>

Callbacks == {"TensorBoard", "ModelCheckpoint", "EarlyStopping"}

RemoteFitArgs ==
    [x |-> Rows(TrainSamples, TrainSamples), epochs |-> FullEpochs,
     callbacks |-> Callbacks]

RemoteFit ==
    /\ nb = "cloud" /\ pc = "remote_fit"
    /\ Statement("remote_fit", RunsFullTraining, RemoteFitArgs, CloudSucc("remote_fit"))
    /\ UNCHANGED cloudVars
    /\ UNCHANGED <<dataVars, n_classes, bmVars>>

RemoteSave ==
    /\ nb = "cloud" /\ pc = "remote_save"
    /\ Statement("remote_save", RunsFullTraining, [dir |-> SAVED_MODEL_DIR], CloudSucc("remote_save"))
    /\ saved_model' = (saved_model \/ (pc' = CloudSucc("remote_save") /\ Len(calls') > Len(calls)))
    /\ UNCHANGED <<remote, sys_modules, environ, requirements_txt, jobs>>
    /\ UNCHANGED <<dataVars, n_classes, bmVars>>

\* with open("requirements.txt", "w") as f: f.write("tensorflow-cloud\n")
\* open may raise (the file is as it was) and write may raise (the file is
\* as open left it).
WriteRequirements ==
    /\ nb = "cloud" /\ pc = "requirements"
    /\ \E outcome \in {"ok", "open raises", "write raises"} :
          /\ IF outcome = "ok"
             THEN Ran("requirements", [before |-> requirements_txt],
                      CloudSucc("requirements"))
             ELSE Raised("requirements", [before |-> requirements_txt])
          /\ requirements_txt' =
                CASE outcome = "ok" ->
                        Write(Open(requirements_txt, RequirementsMode), "tensorflow-cloud")
                  [] outcome = "open raises" -> requirements_txt
                  [] outcome = "write raises" -> Open(requirements_txt, RequirementsMode)
    /\ UNCHANGED <<remote, sys_modules, environ, saved_model, jobs>>
    /\ UNCHANGED <<dataVars, n_classes, bmVars>>

\* The arguments of tfc.run, with the content of the requirements file
\* the argument requirements_txt names at the time of the call.
TfcRunArgs ==
    [distribution_strategy |-> "auto",
     requirements_txt |-> "requirements.txt",
     requirements_file |-> requirements_txt,
     docker_config |-> [parent_image |-> TF_GPU_IMAGE,
                        image_build_bucket |-> GCS_BUCKET],
     chief_config |-> "K80_1X",
     job_labels |-> [job |-> JOB_NAME]]

\* A tfc.run that packages and sends the code wherever it is called.
SubmitsJobAlways == TRUE

\* Whether a call of tfc.run that returns has submitted a job.  "When this
\* is executed inside this notebook" the code is packaged and sent to
\* Google Cloud; in the copy that runs there (tfc.remote() is true) run
\* returns without submitting.  The notebook itself puts no condition on
\* the call.
SubmitsJob == ~remote

\* tfc.run(...), not under any if.
TfcRun ==
    /\ nb = "cloud" /\ pc = "tfc_run"
    /\ Statement("tfc_run", TRUE, TfcRunArgs, CloudSucc("tfc_run"))
    /\ jobs' = IF pc' = CloudSucc("tfc_run") /\ SubmitsJob THEN jobs + 1 ELSE jobs
    /\ UNCHANGED <<remote, sys_modules, environ, requirements_txt, saved_model>>
    /\ UNCHANGED <<dataVars, n_classes, bmVars>>


\* The order of the statements with the remapping of y_test moved from the
\* data-loading cell to just before model.evaluate.
TsSuccRemapLate(step) ==
    CASE step = "load_train"    -> "load_test"
      [] step = "load_test"     -> "reshape_train"
      [] step = "reshape_train" -> "reshape_test"
      [] step = "reshape_test"  -> "n_classes"
      [] step = "n_classes"     -> "permutation"
      [] step = "permutation"   -> "shuffle_x"
      [] step = "shuffle_x"     -> "shuffle_y"
      [] step = "shuffle_y"     -> "remap_train"
      [] step = "remap_train"   -> "build_model"
      [] step = "build_model"   -> "bm_input"
      [] step = "compile"       -> "fit"
      [] step = "fit"           -> "remap_test"
      [] step = "remap_test"    -> "evaluate"
      [] step = "evaluate"      -> "done"

\* The order of the statements of the timeseries notebook; build_model
\* returns to "compile".
TsSucc(step) ==
    CASE step = "load_train"    -> "load_test"
      [] step = "load_test"     -> "reshape_train"
      [] step = "reshape_train" -> "reshape_test"
      [] step = "reshape_test"  -> "n_classes"
      [] step = "n_classes"     -> "permutation"
      [] step = "permutation"   -> "shuffle_x"
      [] step = "shuffle_x"     -> "shuffle_y"
      [] step = "shuffle_y"     -> "remap_train"
      [] step = "remap_train"   -> "remap_test"
      [] step = "remap_test"    -> "build_model"
      [] step = "build_model"   -> "bm_input"
      [] step = "compile"       -> "fit"
      [] step = "fit"           -> "evaluate"
      [] step = "evaluate"      -> "done"

InitTs ==
    /\ nb = "timeseries"
    /\ pc = "load_train"
    /\ calls = <<>>
    /\ failed = None
    /\ \E n \in 1..MaxTrain : \E m \in TestRows :
       \E ltrain \in LabelSeqs(n) : \E ltest \in LabelSeqs(m) :
          /\ file_train = MakeFile(ltrain, MaxSteps, 1)
          /\ file_test = MakeFile(ltest, MaxSteps, 0)
    /\ x_train = Undefined /\ y_train = Undefined
    /\ x_test = Undefined /\ y_test = Undefined
    /\ n_classes = 0
    /\ idx = <<>>
    /\ NoBuild /\ NoCloud

\* x_train, y_train = readucr(root_url + "FordA_TRAIN.tsv")
LoadTrain ==
    /\ nb = "timeseries" /\ pc = "load_train"
    /\ \E ok \in BOOLEAN :
          IF ok /\ ~ReadUcrRaises(file_train)
          THEN /\ Ran("load_train", NoArg, TsSucc("load_train"))
               /\ x_train' = ReadUcr(file_train).x
               /\ y_train' = ReadUcr(file_train).y
          ELSE /\ Raised("load_train", NoArg)
               /\ UNCHANGED <<x_train, y_train>>
    /\ UNCHANGED <<file_train, file_test, x_test, y_test, n_classes, idx>>
    /\ UNCHANGED <<cloudVars, bmVars>>

\* x_test, y_test = readucr(root_url + "FordA_TEST.tsv")
LoadTest ==
    /\ nb = "timeseries" /\ pc = "load_test"
    /\ \E ok \in BOOLEAN :
          IF ok /\ ~ReadUcrRaises(file_test)
          THEN /\ Ran("load_test", NoArg, TsSucc("load_test"))
               /\ x_test' = ReadUcr(file_test).x
               /\ y_test' = ReadUcr(file_test).y
          ELSE /\ Raised("load_test", NoArg)
               /\ UNCHANGED <<x_test, y_test>>
    /\ UNCHANGED <<file_train, file_test, x_train, y_train, n_classes, idx>>
    /\ UNCHANGED <<cloudVars, bmVars>>

\* x_train = x_train.reshape((x_train.shape[0], x_train.shape[1], 1))
ReshapeTrain ==
    /\ nb = "timeseries" /\ pc = "reshape_train"
    /\ Ran("reshape_train", ReshapeTarget(x_train), TsSucc("reshape_train"))
    /\ x_train' = Reshape(x_train, ReshapeTarget(x_train))
    /\ UNCHANGED <<file_train, file_test, y_train, x_test, y_test, n_classes, idx>>
    /\ UNCHANGED <<cloudVars, bmVars>>

\* x_test = x_test.reshape((x_test.shape[0], x_test.shape[1], 1))
ReshapeTest ==
    /\ nb = "timeseries" /\ pc = "reshape_test"
    /\ Ran("reshape_test", ReshapeTarget(x_test), TsSucc("reshape_test"))
    /\ x_test' = Reshape(x_test, ReshapeTarget(x_test))
    /\ UNCHANGED <<file_train, file_test, x_train, y_train, y_test, n_classes, idx>>
    /\ UNCHANGED <<cloudVars, bmVars>>

\* n_classes = len(np.unique(y_train))
NClasses ==
    /\ nb = "timeseries" /\ pc = "n_classes"
    /\ Ran("n_classes", NoArg, TsSucc("n_classes"))
    /\ n_classes' = CountUnique(y_train)
    /\ UNCHANGED <<file_train, file_test, x_train, y_train, x_test, y_test, idx>>
    /\ UNCHANGED <<cloudVars, bmVars>>

\* idx = np.random.permutation(len(x_train))
Permutation ==
    /\ nb = "timeseries" /\ pc = "permutation"
    /\ Ran("permutation", NoArg, TsSucc("permutation"))
    /\ idx' \in Permutations(x_train.shape[1])
    /\ UNCHANGED <<file_train, file_test, x_train, y_train, x_test, y_test, n_classes>>
    /\ UNCHANGED <<cloudVars, bmVars>>

\* x_train = x_train[idx]
ShuffleX ==
    /\ nb = "timeseries" /\ pc = "shuffle_x"
    /\ Ran("shuffle_x", NoArg, TsSucc("shuffle_x"))
    /\ x_train' = Take(x_train, idx)
    /\ UNCHANGED <<file_train, file_test, y_train, x_test, y_test, n_classes, idx>>
    /\ UNCHANGED <<cloudVars, bmVars>>

\* An index array that leaves the labels in the order of the file.
LabelIndexUnshuffled == [k \in DOMAIN idx |-> k]

\* The index array the labels are indexed with: idx, as the samples are.
LabelIndex == idx

\* y_train = y_train[idx]
ShuffleY ==
    /\ nb = "timeseries" /\ pc = "shuffle_y"
    /\ Ran("shuffle_y", NoArg, TsSucc("shuffle_y"))
    /\ y_train' = Take(y_train, LabelIndex)
    /\ UNCHANGED <<file_train, file_test, x_train, x_test, y_test, n_classes, idx>>
    /\ UNCHANGED <<cloudVars, bmVars>>

\* y_train[y_train == -1] = 0
RemapTrain ==
    /\ nb = "timeseries" /\ pc = "remap_train"
    /\ Ran("remap_train", NoArg, TsSucc("remap_train"))
    /\ y_train' = Remap(y_train)
    /\ UNCHANGED <<file_train, file_test, x_train, x_test, y_test, n_classes, idx>>
    /\ UNCHANGED <<cloudVars, bmVars>>

\* y_test[y_test == -1] = 0
RemapTest ==
    /\ nb = "timeseries" /\ pc = "remap_test"
    /\ Ran("remap_test", NoArg, TsSucc("remap_test"))
    /\ y_test' = Remap(y_test)
    /\ UNCHANGED <<file_train, file_test, x_train, y_train, x_test, n_classes, idx>>
    /\ UNCHANGED <<cloudVars, bmVars>>

-----------------------------------------------------------------------------
(***************************************************************************)
(* Keras layers: a model under construction is the sequence of the layers  *)
(* applied so far; a layer names the layers it is applied to (ins) and the *)
(* shape of its output.                                                    *)
(***************************************************************************)

\* The batch dimension of a symbolic tensor (None).
Batch == 0

Layer(op, ins, shape, units, activation) ==
    [op |-> op, ins |-> ins, shape |-> shape, units |-> units,
     activation |-> activation]

Last(s) == s[Len(s)]
Front(s) == SubSeq(s, 1, Len(s) - 1)

\* keras.Input(shape=input_shape)
Input(input_shape) == Layer("Input", <<>>, <<Batch>> \o input_shape, 0, "")

\* layers.LayerNormalization(epsilon=1e-6)(t)
LayerNormalization(g, t) == Layer("LayerNormalization", <<t>>, g[t].shape, 0, "")

\* layers.MultiHeadAttention(key_dim, num_heads, dropout)(q, v): the heads
\* are projected back to the last dimension of the query.
MultiHeadAttention(g, q, v, key_dim, num_heads, rate) ==
    Layer("MultiHeadAttention", <<q, v>>,
          Front(g[q].shape) \o <<Last(g[q].shape)>>,
          key_dim * num_heads, "")

\* layers.Dropout(rate)(t); the rate, in percent, is kept in units.
Dropout(g, t, rate) == Layer("Dropout", <<t>>, g[t].shape, rate, "")

\* Broadcasting of two shapes of the same rank; <<>> when they do not
\* broadcast.
Broadcastable(a, b) ==
    /\ Len(a) = Len(b)
    /\ \A d \in 1..Len(a) : a[d] = b[d] \/ a[d] = 1 \/ b[d] = 1

Broadcast(a, b) ==
    IF Broadcastable(a, b)
    THEN [d \in 1..Len(a) |-> IF a[d] = 1 THEN b[d] ELSE a[d]]
    ELSE <<>>

\* a + b
Add(g, a, b) == Layer("Add", <<a, b>>, Broadcast(g[a].shape, g[b].shape), 0, "")

\* layers.Conv1D(filters, kernel_size=1)(t): valid padding, stride 1.
Conv1D(g, t, filters, kernel_size, activation) ==
    Layer("Conv1D", <<t>>,
          <<g[t].shape[1], g[t].shape[2] - kernel_size + 1, filters>>,
          filters, activation)

\* layers.GlobalAveragePooling1D(data_format="channels_first")(t): the
\* input is read as (batch, features, steps) and the last axis averaged.
GlobalAveragePooling1D(g, t) ==
    Layer("GlobalAveragePooling1D", <<t>>, <<g[t].shape[1], g[t].shape[2]>>, 0, "")

\* layers.Dense(units, activation)(t)
Dense(g, t, units, activation) ==
    Layer("Dense", <<t>>, Front(g[t].shape) \o <<units>>, units, activation)

\* A second projection as wide as the first one.
ProjectionFiltersFfDim(g, inputs, ff_dim) == ff_dim

\* The filters of the second projection of an encoder block:
\* filters=inputs.shape[-1].
ProjectionFilters(g, inputs, ff_dim) == Last(g[inputs].shape)

\* transformer_encoder(inputs, head_size, num_heads, ff_dim, dropout): the
\* model g with the nine layers of one block applied to layer `inputs`;
\* the block's output is the last layer.
TransformerEncoder(g, inputs, head_size, num_heads, ff_dim, dropout) ==
    LET n  == Len(g)
        g1 == Append(g, LayerNormalization(g, inputs))
        g2 == Append(g1, MultiHeadAttention(g1, n + 1, n + 1, head_size, num_heads, dropout))
        g3 == Append(g2, Dropout(g2, n + 2, dropout))
        g4 == Append(g3, Add(g3, n + 3, inputs))
        g5 == Append(g4, LayerNormalization(g4, n + 4))
        g6 == Append(g5, Conv1D(g5, n + 5, ff_dim, 1, "relu"))
        g7 == Append(g6, Dropout(g6, n + 6, dropout))
        g8 == Append(g7, Conv1D(g7, n + 7, ProjectionFilters(g, inputs, ff_dim), 1, ""))
    IN  Append(g8, Add(g8, n + 8, n + 4))

\* A layer could not be built: its operands do not broadcast.
Invalid(g) == \E k \in 1..Len(g) : g[k].shape = <<>>

\* The arguments of the notebook's call of build_model; rates in percent.
NotebookArgs(input_shape) ==
    [input_shape |-> input_shape, head_size |-> 256, num_heads |-> 4,
     ff_dim |-> 4, num_transformer_blocks |-> 4, mlp_units |-> <<128>>,
     mlp_dropout |-> 40, dropout |-> 25]

\* Bounds on the arguments build_model is applied to on its own.
MaxBlocks == 2
MaxMlp == 2
MaxDim == 2
Dims == 1..MaxDim
\* head_size and num_heads: the least, and those of the notebook.
Heads == {<<1, 1>>, <<256, 4>>}

BuildArgs ==
    {a \in [input_shape : {<<MaxSteps, f>> : f \in Dims},
            head_size : {h[1] : h \in Heads}, num_heads : {h[2] : h \in Heads},
            ff_dim : Dims, num_transformer_blocks : 0..MaxBlocks,
            mlp_units : SeqsUpTo(Dims, MaxMlp),
            mlp_dropout : {40}, dropout : {25}] :
        <<a.head_size, a.num_heads>> \in Heads}

InitBuild ==
    /\ nb = "build_model"
    /\ pc = "bm_input"
    /\ calls = <<>>
    /\ failed = None
    /\ bm_args \in BuildArgs
    /\ n_classes \in Dims
    /\ layers = <<>> /\ x = 0 /\ blocks = 0 /\ dense = 0
    /\ NoData /\ NoCloud

\* model = build_model(input_shape, head_size=256, ...) with
\* input_shape = x_train.shape[1:]
CallBuildModel ==
    /\ nb = "timeseries" /\ pc = "build_model"
    /\ Ran("build_model", Tail(x_train.shape), TsSucc("build_model"))
    /\ bm_args' = NotebookArgs(Tail(x_train.shape))
    /\ UNCHANGED <<layers, x, blocks, dense>>
    /\ UNCHANGED <<cloudVars, dataVars, n_classes>>

\* inputs = keras.Input(shape=input_shape); x = inputs
BmInput ==
    /\ pc = "bm_input"
    /\ \E ok \in BOOLEAN :
          IF ok
          THEN /\ Ran("bm_input", NoArg, "bm_blocks")
               /\ layers' = <<Input(bm_args.input_shape)>>
               /\ x' = 1
          ELSE /\ Raised("bm_input", NoArg)
               /\ UNCHANGED <<layers, x>>
    /\ UNCHANGED <<bm_args, blocks, dense>>
    /\ UNCHANGED <<cloudVars, dataVars, n_classes>>

\* A stacking loop of one iteration too many.
BlockRangeOneMore(n) == n + 1

\* The iterations the stacking loop makes: range(num_transformer_blocks).
BlockRange(n) == n

\* for _ in range(num_transformer_blocks):
\*     x = transformer_encoder(x, head_size, num_heads, ff_dim, dropout)
BmBlock ==
    /\ pc = "bm_blocks"
    /\ blocks < BlockRange(bm_args.num_transformer_blocks)
    /\ LET g == TransformerEncoder(layers, x, bm_args.head_size,
                    bm_args.num_heads, bm_args.ff_dim, bm_args.dropout)
       IN  IF Invalid(g)
           THEN /\ Raised("bm_block", NoArg)
                /\ UNCHANGED <<layers, x, blocks>>
           ELSE /\ Ran("bm_block", NoArg, "bm_blocks")
                /\ layers' = g
                /\ x' = Len(g)
                /\ blocks' = blocks + 1
    /\ UNCHANGED <<bm_args, dense>>
    /\ UNCHANGED <<cloudVars, dataVars, n_classes>>

\* x = layers.GlobalAveragePooling1D(data_format="channels_first")(x)
BmPool ==
    /\ pc = "bm_blocks"
    /\ blocks >= BlockRange(bm_args.num_transformer_blocks)
    /\ Ran("bm_pool", NoArg, "bm_mlp")
    /\ layers' = Append(layers, GlobalAveragePooling1D(layers, x))
    /\ x' = Len(layers')
    /\ UNCHANGED <<bm_args, blocks, dense>>
    /\ UNCHANGED <<cloudVars, dataVars, n_classes>>

\* for dim in mlp_units:
\*     x = layers.Dense(dim, activation="relu")(x)
\*     x = layers.Dropout(mlp_dropout)(x)
BmDense ==
    /\ pc = "bm_mlp"
    /\ dense < Len(bm_args.mlp_units)
    /\ Ran("bm_dense", NoArg, "bm_mlp")
    /\ LET g == Append(layers, Dense(layers, x, bm_args.mlp_units[dense + 1], "relu"))
       IN  layers' = Append(g, Dropout(g, Len(g), bm_args.mlp_dropout))
    /\ x' = Len(layers')
    /\ dense' = dense + 1
    /\ UNCHANGED <<bm_args, blocks>>
    /\ UNCHANGED <<cloudVars, dataVars, n_classes>>

\* outputs = layers.Dense(n_classes, activation="softmax")(x)
\* return keras.Model(inputs, outputs)
BmOutput ==
    /\ pc = "bm_mlp"
    /\ dense >= Len(bm_args.mlp_units)
    /\ Ran("bm_output", NoArg, IF nb = "timeseries" THEN "compile" ELSE "done")
    /\ layers' = Append(layers, Dense(layers, x, n_classes, "softmax"))
    /\ x' = Len(layers')
    /\ UNCHANGED <<bm_args, blocks, dense>>
    /\ UNCHANGED <<cloudVars, dataVars, n_classes>>

\* model.compile(loss="sparse_categorical_crossentropy", ...)
Compile ==
    /\ nb = "timeseries" /\ pc = "compile"
    /\ Statement("compile", TRUE, NoArg, TsSucc("compile"))
    /\ UNCHANGED <<cloudVars, dataVars, n_classes, bmVars>>

\* model.fit(x_train, y_train, validation_split=0.2, epochs=200,
\*           batch_size=64, callbacks=callbacks)
Fit ==
    /\ nb = "timeseries" /\ pc = "fit"
    /\ Statement("fit", TRUE, [epochs |-> 200, batch_size |-> 64], TsSucc("fit"))
    /\ UNCHANGED <<cloudVars, dataVars, n_classes, bmVars>>

\* model.evaluate(x_test, y_test, verbose=1)
Evaluate ==
    /\ nb = "timeseries" /\ pc = "evaluate"
    /\ Statement("evaluate", TRUE, NoArg, TsSucc("evaluate"))
    /\ UNCHANGED <<cloudVars, dataVars, n_classes, bmVars>>

Init == InitCloud \/ InitTs \/ InitBuild

Next ==
    \/ Config
    \/ AuthKaggle
    \/ AuthColab
    \/ LoadData
    \/ CreateModel
    \/ SmokeFit
    \/ RemoteFit
    \/ RemoteSave
    \/ WriteRequirements
    \/ TfcRun
    \/ LoadTrain
    \/ LoadTest
    \/ ReshapeTrain
    \/ ReshapeTest
    \/ NClasses
    \/ Permutation
    \/ ShuffleX
    \/ ShuffleY
    \/ RemapTrain
    \/ RemapTest
    \/ CallBuildModel
    \/ BmInput
    \/ BmBlock
    \/ BmPool
    \/ BmDense
    \/ BmOutput
    \/ Compile
    \/ Fit
    \/ Evaluate

Spec == Init /\ [][Next]_vars

-----------------------------------------------------------------------------
(***************************************************************************)
(* Properties of the cloud notebook.                                       *)
(***************************************************************************)

\* The execution has come past both training cells.
PastTrainingCells == nb = "cloud" /\ pc \in {"requirements", "tfc_run", "done"}

Before(fn1, fn2) ==
    \A k \in Positions(calls, fn2) : \E j \in 1..(k - 1) : calls[j].fn = fn1

\* C1: exactly one of the two training paths runs.  A remote execution
\* that comes past the training cells has run the full fit (100 epochs at
\* most, on all samples, with the TensorBoard, checkpoint and early-stopping
\* callbacks) and then saved the model to the saved-model directory, and no
\* smoke test; a local one has run only the one-epoch smoke test on the
\* first 100 samples.  The smoke test is never in the log of a remote
\* execution, the full fit and the save never in the log of a local one.
C1_ExactlyOneTrainingPath ==
    nb = "cloud" =>
      /\ Called("smoke_fit") => ~remote
      /\ (Called("remote_fit") \/ Called("remote_save")) => remote
      /\ \A k \in Positions(calls, "smoke_fit") :
            /\ calls[k].arg.epochs = 1
            /\ calls[k].arg.x = [first |-> 1, last |-> 100]
            /\ calls[k].arg.callbacks = {}
      /\ \A k \in Positions(calls, "remote_fit") :
            /\ calls[k].arg.epochs <= 100
            /\ calls[k].arg.x = [first |-> 1, last |-> TrainSamples]
            /\ calls[k].arg.callbacks =
                  {"TensorBoard", "ModelCheckpoint", "EarlyStopping"}
      /\ \A k \in Positions(calls, "remote_save") :
            calls[k].arg.dir = "gs://YOUR_GCS_BUCKET_NAME/mnist/saved_model"
      /\ Before("remote_fit", "remote_save")
      /\ saved_model <=> (Called("remote_save") /\ failed # "remote_save")
      /\ PastTrainingCells =>
            /\ remote => Called("remote_fit") /\ Called("remote_save")
            /\ ~remote => Called("smoke_fit")
            /\ Cardinality(Positions(calls, "smoke_fit")
                           \cup Positions(calls, "remote_fit")) = 1

\* A remote execution that has run the full training and saved the model,
\* and has finished.
C1_Witness ==
    /\ nb = "cloud" /\ pc = "done" /\ remote
    /\ Called("remote_fit") /\ Called("remote_save") /\ saved_model

AuthCalled == Called("auth_kaggle") \/ Called("auth_colab")

\* C2: the authentication code runs only in a local execution.  In a remote
\* execution no step adds an authentication call to the log or changes
\* GOOGLE_CLOUD_PROJECT, whichever host markers are loaded; the variable
\* changes only in a local execution under Colab, to the project id.
C2_AuthenticationOnlyLocal ==
    [][nb = "cloud" =>
         /\ remote => (environ' = environ /\ ~AuthCalled')
         /\ AuthCalled' => ~remote
         /\ environ' # environ =>
               /\ ~remote /\ "google.colab" \in sys_modules
               /\ environ' = GCP_PROJECT_ID /\ Called("auth_colab")']_vars

\* A remote execution with both host markers loaded that has come past the
\* authentication cell: nothing was called, the variable is not the
\* project id.
C2_Witness ==
    /\ nb = "cloud" /\ remote /\ sys_modules = HostMarkers
    /\ pc = "load_data" /\ ~AuthCalled /\ environ # GCP_PROJECT_ID

\* The GPU base image of the deeplearning-platform-release registry.
GpuImageRef == "gcr.io/deeplearning-platform-release/tf2-gpu.2-5"

\* C5: the docker configuration handed to the submission call names the GPU
\* base image, matching the K80_1X machine configuration of the chief.
C5_SubmitsGpuImage ==
    \A k \in Positions(calls, "tfc_run") :
        /\ calls[k].arg.chief_config = "K80_1X"
        /\ calls[k].arg.docker_config.parent_image = GpuImageRef

\* C6: whenever the submission call is invoked, requirements.txt was
\* written earlier in the execution and holds exactly the one line
\* tensorflow-cloud, whatever it held before the execution.
C6_RequirementsWritten ==
    nb = "cloud" =>
      /\ Before("requirements", "tfc_run")
      /\ \A k \in Positions(calls, "tfc_run") :
            /\ calls[k].arg.requirements_txt = "requirements.txt"
            /\ calls[k].arg.requirements_file =
                  [exists |-> TRUE, lines |-> <<"tensorflow-cloud">>]

\* The submission call was invoked in an execution that found a
\* requirements.txt of two lines or more.
C6_Witness ==
    /\ Called("tfc_run")
    /\ \E k \in Positions(calls, "requirements") :
          /\ calls[k].arg.before.exists
          /\ Len(calls[k].arg.before.lines) >= 2

-----------------------------------------------------------------------------
(***************************************************************************)
(* Properties of the data-loading cell of the timeseries notebook.         *)
(***************************************************************************)

\* y is y0 with every -1 replaced by 0 and every other element kept.
Remapped(y0, y) ==
    /\ y.shape = y0.shape
    /\ DOMAIN y.data = DOMAIN y0.data
    /\ \A k \in DOMAIN y0.data :
          y.data[k] = IF y0.data[k] = -1 THEN 0 ELSE y0.data[k]
    /\ (\A k \in DOMAIN y0.data : y0.data[k] \in {-1, 1})
          => \A k \in DOMAIN y.data : y.data[k] \in {0, 1}

\* C3: the remapping statements map every label -1 to 0 and leave every
\* other label as it is, position by position, in y_train and in y_test;
\* labels drawn from {-1, 1} are in {0, 1} afterwards.
C3_LabelRemapping ==
    [][/\ (pc = "remap_train" /\ pc' # pc) => Remapped(y_train, y_train')
       /\ (pc = "remap_test" /\ pc' # pc) => Remapped(y_test, y_test')]_vars

\* Both sets have been remapped; each file held a -1, and the training
\* file a label that is kept.
C3_Witness ==
    /\ nb = "timeseries" /\ Called("remap_train") /\ Called("remap_test")
    /\ \E i \in DOMAIN file_train : file_train[i][1] = Float(-1)
    /\ \E i \in DOMAIN file_test : file_test[i][1] = Float(-1)
    /\ \E k \in DOMAIN y_train.data : y_train.data[k] = 1
    /\ \E k \in DOMAIN y_test.data : y_test.data[k] = 0

\* b is the array a of shape (samples, timesteps) as (samples, timesteps, 1).
Reshaped(a, b) ==
    /\ Len(a.shape) = 2
    /\ b.shape = <<a.shape[1], a.shape[2], 1>>
    /\ Len(b.data) = Len(a.data)
    /\ Len(b.data) = a.shape[1] * a.shape[2]
    /\ \A i \in 1..a.shape[1] : \A j \in 1..a.shape[2] :
          At(b, <<i, j, 1>>) = At(a, <<i, j>>)

\* C4: the reshape statements turn the loaded (samples, timesteps) arrays
\* into (samples, timesteps, 1) arrays of the same number of elements, with
\* element [i][j][0] the loaded element [i][j], for x_train and x_test.
C4_Reshape ==
    [][/\ (pc = "reshape_train" /\ pc' # pc) => Reshaped(x_train, x_train')
       /\ (pc = "reshape_test" /\ pc' # pc) => Reshaped(x_test, x_test')]_vars

\* Both arrays are reshaped, the training array of three samples of two
\* timesteps or more.
C4_Witness ==
    /\ nb = "timeseries" /\ pc = "n_classes"
    /\ Len(x_train.shape) = 3 /\ x_train.shape[1] >= 3 /\ x_train.shape[2] >= 2
    /\ x_train.shape[1] # x_train.shape[2]
    /\ Len(x_test.shape) = 3

\* Both readucr calls have returned.
Loaded == nb = "timeseries" /\ Called("load_test") /\ failed # "load_test"

\* The statements of the cells after the data-loading cell.
LaterCells ==
    {"build_model", "bm_input", "bm_block", "bm_pool", "bm_dense", "bm_output",
     "compile", "fit", "evaluate"}

\* The data-loading cell is finished: a statement of a later cell ran or is
\* about to run.
DataCellDone ==
    /\ nb = "timeseries"
    /\ \/ pc \in LaterCells \cup {"done"}
       \/ \E k \in 1..Len(calls) : calls[k].fn \in LaterCells

\* C7 as stated: from the return of the two readucr calls on, no statement
\* changes the sample values, the labels or the order of either set.
C7_ImmutableOnceLoaded ==
    [][Loaded =>
         /\ x_train'.data = x_train.data /\ y_train' = y_train
         /\ x_test'.data = x_test.data /\ y_test' = y_test]_vars

\* C7 amended: once the data-loading cell is finished (after the reshape,
\* the shuffle and the remapping), no statement changes the four arrays;
\* inside the cell, after the load, the test samples are never changed or
\* reordered and the training samples are only reordered.
C7_ImmutableAfterDataCell ==
    [][/\ DataCellDone =>
            /\ x_train' = x_train /\ y_train' = y_train
            /\ x_test' = x_test /\ y_test' = y_test
       /\ Loaded =>
            /\ x_test'.data = x_test.data
            /\ {x_train'.data[k] : k \in DOMAIN x_train'.data}
                  = {x_train.data[k] : k \in DOMAIN x_train.data}]_vars

\* The notebook has run to its end on a training set that the shuffle
\* reordered and the remapping changed.
C7_Witness ==
    /\ nb = "timeseries" /\ pc = "done"
    /\ \E k \in DOMAIN idx : idx[k] # k
    /\ \E i \in DOMAIN file_train : file_train[i][1] = Float(-1)
    /\ \E i \in DOMAIN file_test : file_test[i][1] = Float(-1)

-----------------------------------------------------------------------------
(***************************************************************************)
(* Failures.                                                               *)
(***************************************************************************)

\* The statements inside the loops of build_model.
LoopStatements == {"bm_block", "bm_dense"}

\* C8: a statement that raises ends the execution.  No step is taken from
\* a state in which a statement has failed; the failed statement is the
\* last of the log; no statement outside a loop is in the log twice, the
\* submission call in particular.
C8_FailureEndsExecution ==
    [][/\ failed = None
       /\ failed' # None =>
             /\ pc' = "failed"
             /\ Len(calls') = Len(calls) + 1
             /\ Last(calls').fn = failed'
       /\ \A k \in 1..Len(calls') :
             calls'[k].fn \notin LoopStatements
                => Positions(calls', calls'[k].fn) = {k}
       /\ Cardinality(Positions(calls', "tfc_run")) <= 1]_vars

\* The submission call raised.
C8_Witness ==
    /\ nb = "cloud" /\ failed = "tfc_run" /\ pc = "failed"
    /\ Positions(calls, "tfc_run") = {Len(calls)}

-----------------------------------------------------------------------------
(***************************************************************************)
(* Properties of build_model and transformer_encoder.                      *)
(***************************************************************************)

\* The layers of one encoder block, in order.
BlockOps ==
    <<"LayerNormalization", "MultiHeadAttention", "Dropout", "Add",
      "LayerNormalization", "Conv1D", "Dropout", "Conv1D", "Add">>

\* Layers base+1 .. base+9 of g are an encoder block applied to layer base.
IsBlockOn(g, base) ==
    /\ \A k \in 1..9 : g[base + k].op = BlockOps[k]
    /\ g[base + 1].ins = <<base>>
    /\ g[base + 2].ins = <<base + 1, base + 1>>
    /\ g[base + 3].ins = <<base + 2>>
    /\ g[base + 4].ins = <<base + 3, base>>
    /\ g[base + 5].ins = <<base + 4>>
    /\ g[base + 6].ins = <<base + 5>>
    /\ g[base + 7].ins = <<base + 6>>
    /\ g[base + 8].ins = <<base + 7>>
    /\ g[base + 9].ins = <<base + 8, base + 4>>

\* build_model has returned.
Built == Called("bm_output")

\* C9: the model build_model returns is the input, then N encoder blocks,
\* each applied to the output of the one before (the first to the input),
\* then one global average pooling, then one (Dense, Dropout) pair for each
\* element of mlp_units, in the order of the list and of its width, then
\* one softmax Dense of width n_classes; nothing else.
C9_Composition ==
    Built =>
      LET g == layers
          N == bm_args.num_transformer_blocks
          M == Len(bm_args.mlp_units)
          pool == 9 * N + 2
      IN  /\ Len(g) = 1 + 9 * N + 1 + 2 * M + 1
          /\ g[1].op = "Input"
          /\ g[1].shape = <<Batch>> \o bm_args.input_shape
          /\ \A b \in 1..N : IsBlockOn(g, 9 * (b - 1) + 1)
          /\ g[pool].op = "GlobalAveragePooling1D"
          /\ g[pool].ins = <<pool - 1>>
          /\ \A d \in 1..M :
                /\ g[pool + 2 * d - 1].op = "Dense"
                /\ g[pool + 2 * d - 1].units = bm_args.mlp_units[d]
                /\ g[pool + 2 * d - 1].activation = "relu"
                /\ g[pool + 2 * d - 1].ins = <<pool + 2 * d - 2>>
                /\ g[pool + 2 * d].op = "Dropout"
                /\ g[pool + 2 * d].units = bm_args.mlp_dropout
                /\ g[pool + 2 * d].ins = <<pool + 2 * d - 1>>
          /\ g[Len(g)].op = "Dense"
          /\ g[Len(g)].activation = "softmax"
          /\ g[Len(g)].units = n_classes
          /\ g[Len(g)].ins = <<Len(g) - 1>>
          /\ x = Len(g)

\* build_model has returned a model of two blocks and two Dense layers of
\* different widths.
C9_Witness ==
    /\ nb = "build_model" /\ Built /\ pc = "done"
    /\ bm_args.num_transformer_blocks >= 2
    /\ Len(bm_args.mlp_units) >= 2
    /\ bm_args.mlp_units[1] # bm_args.mlp_units[2]

\* The model of no block and no Dense layer: input, pooling, final Dense.
C9_WitnessEmpty ==
    /\ nb = "build_model" /\ Built
    /\ [k \in 1..Len(layers) |-> layers[k].op]
          = <<"Input", "GlobalAveragePooling1D", "Dense">>

\* C10: transformer_encoder keeps the shape of its input.  Every residual
\* addition adds two tensors of one shape, every block's output has the
\* shape (batch, timesteps, features) of the model's input, x has that
\* shape at every test of the stacking loop, and no block fails to build.
C10_ShapePreserved ==
    layers # <<>> =>
      /\ failed # "bm_block"
      /\ \A k \in 1..Len(layers) :
            layers[k].op = "Add" =>
               /\ layers[layers[k].ins[1]].shape = layers[layers[k].ins[2]].shape
               /\ layers[k].shape = layers[layers[k].ins[1]].shape
      /\ \A b \in 1..blocks :
            layers[9 * b + 1].shape = <<Batch>> \o bm_args.input_shape
      /\ pc = "bm_blocks" =>
            /\ Len(layers[x].shape) = 3
            /\ layers[x].shape = <<Batch>> \o bm_args.input_shape

\* Two blocks are stacked on an input of two features or more, with a
\* feed-forward width that is not the number of features.
C10_Witness ==
    /\ nb = "build_model" /\ pc = "bm_blocks" /\ blocks >= 2
    /\ Last(bm_args.input_shape) >= 2
    /\ bm_args.ff_dim # Last(bm_args.input_shape)

-----------------------------------------------------------------------------
(***************************************************************************)
(* The shuffle and n_classes.                                              *)
(***************************************************************************)

\* The label a file's row holds, as readucr returns it.
FileLabel(file, i) == AsInt(file[i][1])

\* The label as it stands before and after the remapping.
LabelNow(l, remapped) == IF remapped /\ l = -1 THEN 0 ELSE l

\* Sample i of a file with its label, and sample k of the arrays with its.
FilePair(file, i, remapped) ==
    <<Tail(file[i]), LabelNow(FileLabel(file, i), remapped)>>
ArrayPair(xs, ys, k) == <<Row(xs, k), ys.data[k]>>

\* C11: the shuffle applies one permutation to x_train and y_train.  Once
\* both are shuffled, sample k of the training set is sample idx[k] of the
\* file with that sample's own label, idx is a permutation, and every
\* (sample, label) pair is in the set as often as in the file; the test
\* set is in the order of its file.
C11_ShuffleKeepsPairs ==
    /\ (nb = "timeseries" /\ Called("shuffle_y")) =>
          LET n == Len(file_train)
              remapped == Called("remap_train")
              \* the pairs of the file and of the arrays, as sequences
              inFile == SubSeq([i \in 1..n |-> FilePair(file_train, i, remapped)], 1, n)
              inSet == SubSeq([k \in 1..n |-> ArrayPair(x_train, y_train, k)], 1, n)
          IN
          /\ DOMAIN idx = 1..n
          /\ \A k \in 1..n : idx[k] \in 1..n
          /\ \A j, k \in 1..n : idx[j] = idx[k] => j = k
          /\ x_train.shape[1] = n /\ y_train.shape = <<n>>
          /\ \A k \in 1..n : inSet[k] = inFile[idx[k]]
          /\ \A i \in 1..n :
                Cardinality({k \in 1..n : inSet[k] = inFile[i]})
                = Cardinality({j \in 1..n : inFile[j] = inFile[i]})
    /\ Loaded =>
          LET remapped == Called("remap_test") IN
          /\ x_test.shape[1] = Len(file_test)
          /\ \A i \in 1..Len(file_test) :
                ArrayPair(x_test, y_test, i) = FilePair(file_test, i, remapped)

\* The training set of three samples, two of them with different labels,
\* has been shuffled by a permutation that moves every sample.
C11_Witness ==
    /\ nb = "timeseries" /\ pc = "remap_train"
    /\ Len(idx) >= 3
    /\ \A k \in DOMAIN idx : idx[k] # k
    /\ y_train.data[1] # y_train.data[2]

\* The raw labels of a file.
FileLabels(file) == {FileLabel(file, i) : i \in 1..Len(file)}

\* The labels of a label array.
Labels(y) == {y.data[k] : k \in DOMAIN y.data}

\* Both files hold labels -1 and 1 only, and the training file holds both.
TwoClassData ==
    /\ FileLabels(file_train) = {-1, 1}
    /\ FileLabels(file_test) \subseteq {-1, 1}

\* C12 as stated: after the data-loading cell, n_classes is the number of
\* distinct training labels and every label of y_train and of y_test is in
\* 0..n_classes-1, whatever labels the files hold.
C12_LabelsIndexOutput ==
    DataCellDone =>
        /\ n_classes = CountUnique(y_train)
        /\ Labels(y_train) \cup Labels(y_test) \subseteq 0..(n_classes - 1)

\* C12, for files whose labels are -1 and 1 with both in the training file:
\* n_classes is 2 from its assignment on, after the data-loading cell it is
\* the number of distinct training labels and every label of y_train and of
\* y_test is in 0..n_classes-1, and the output layer build_model ends with
\* is a softmax over n_classes units.
C12_TwoClassLabelsIndexOutput ==
    (nb = "timeseries" /\ TwoClassData) =>
        /\ Called("n_classes") => n_classes = 2
        /\ DataCellDone =>
              /\ n_classes = CountUnique(y_train)
              /\ Labels(y_train) \cup Labels(y_test) \subseteq 0..(n_classes - 1)
        /\ Built =>
              /\ Last(layers).op = "Dense"
              /\ Last(layers).activation = "softmax"
              /\ Last(layers).units = n_classes
              /\ Last(Last(layers).shape) = n_classes

\* Three training samples with labels -1 and 1 and a test sample with
\* label -1 have been loaded and remapped, and the model is built.
C12_Witness ==
    /\ nb = "timeseries" /\ TwoClassData /\ Built
    /\ Len(file_train) >= 3
    /\ -1 \in FileLabels(file_test)
    /\ n_classes = 2

-----------------------------------------------------------------------------
(***************************************************************************)
(* The submission cell in the local and in the remote execution.           *)
(***************************************************************************)

\* The execution came to the end of the notebook.
CloudDone == nb = "cloud" /\ pc = "done"

C13_WitnessLocal == CloudDone /\ ~remote /\ jobs = 1
====
